---- MODULE Spec2Model ----
(***************************************************************************)
(* Model of devbox/mcp_server.py: the three MCP tools devbox_launch,       *)
(* devbox_status and devbox_terminate and the helper                       *)
(* _resolve_termination_target, run one request at a time against a compute *)
(* provider whose set of instances other actors change at any moment.      *)
(* Every call the tools make on DevBoxManager, launch_devbox or the EC2     *)
(* client is one step, so that a change of the provider can fall between    *)
(* two calls of the same request.                                           *)
(***************************************************************************)
EXTENDS Naturals, Sequences, FiniteSets, TLC

\* ------------------------------------------------------------------ bounds
MaxInstances == 2

\* ------------------------------------------------------------------ values
Null == "<null>"       \* Python None
NoTag == "<notag>"     \* an instance that carries no Project tag
Gone == "<gone>"       \* no instance with this id exists at the provider

AllIds == <<"i-1", "i-2", "i-3", "i-4">>
InstIds == {AllIds[k] : k \in 1..MaxInstances}

\* Project tag values: absent, empty, an ordinary name, a name that reads like an id.
Projects == {"web", "i-1"}
TagVals == {NoTag, ""} \cup Projects
\* What a caller may pass as identifier: a project name, an instance id, neither.
Identifiers == {"web", "i-1", "i-2", "ghost"}
\* Descriptions of the exceptions collaborators raise.
Errors == {"Boom", "Denied"}
VolumeLists == {<<>>, <<"vol-1">>, <<"vol-2", "vol-1">>}
SnapshotLists == {<<>>, <<"snap-2">>, <<"snap-1", "snap-2">>}

VARIABLES
    tags,        \* provider: instance id -> Project tag value, NoTag or Gone
    op,          \* the tool of the request in progress
    arg,         \* its project / identifier argument
    pc,          \* position inside the tool
    calls,       \* calls made by this request: <<[fn, arg, err]>>
    instances,   \* local `instances` (status, resolver)
    volumes,     \* local `volumes`
    snapshots,   \* local `snapshots`
    lookup,      \* what describe_instances answered (resolver's `response`)
    instance_id, \* local `instance_id` of devbox_terminate
    project,     \* local `project` of devbox_terminate
    success,     \* local `success`
    message,     \* local `message`
    acted,       \* id of the instance terminate_instance terminated, or Null
    outcome,     \* "none", "response" or "raised"
    response,    \* the returned dict
    error        \* message of the raised RuntimeError

locals == <<instances, volumes, snapshots, lookup, instance_id, project, success, message>>
result == <<outcome, response, error>>
vars == <<tags, op, arg, pc, calls, instances, volumes, snapshots, lookup,
          instance_id, project, success, message, acted, outcome, response, error>>

\* ------------------------------------------------------- collaborators
RECURSIVE Matching(_, _, _)
\* Records of the instances among AllIds[k..] whose tag passes the filter, in id order.
Matching(t, p, k) ==
    IF k > MaxInstances THEN <<>>
    ELSE LET i == AllIds[k]
             rest == Matching(t, p, k + 1)
         IN IF t[i] # Gone /\ (p = Null \/ t[i] = p)
            THEN <<[InstanceId |-> i, Project |-> IF t[i] = NoTag THEN "" ELSE t[i]]>> \o rest
            ELSE rest

\* DevBoxManager.list_instances(project=p)
ListInstances(t, p) == Matching(t, p, 1)

\* utils.get_project_tag(tags): the Project tag's value, "" when there is none.
GetProjectTag(t) == IF t = NoTag THEN "" ELSE t

\* manager.ec2.describe_instances(InstanceIds=[id]): the answers the provider may give.
DescribeOutcomes(t, id) ==
    {[err |-> e, Reservations |-> <<>>] : e \in Errors}
    \cup {[err |-> Null, Reservations |-> <<>>]}
    \cup IF id \in InstIds /\ t[id] # Gone
         THEN {[err |-> Null,
                Reservations |-> <<[Instances |-> <<[InstanceId |-> id, Tags |-> t[id]]>>]>>]}
         ELSE {[err |-> "NotFound", Reservations |-> <<>>]}

\* DevBoxManager.terminate_instance(identifier): the instance it resolves to itself.
TerminateTarget(t, id) ==
    LET m == ListInstances(t, id)
    IN IF Len(m) = 1 THEN m[1].InstanceId
       ELSE IF Len(m) > 1 THEN Null
       ELSE IF id \in InstIds /\ t[id] # Gone THEN id
       ELSE Null

\* launch_devbox(project=p): the instances it may hand back, the project's own one
\* (provisioning is idempotent) or one it starts under a free id.
LaunchTargets(t, p) == {i \in InstIds : t[i] \in {Gone, p}}

\* ------------------------------------------------------- mcp_server.py
\* `x or None`
OrNone(x) == IF x = "" \/ x = Null THEN Null ELSE x

\* A resolver that refuses whenever anything matches.
ResolveMatchesDropsSingle(insts) ==
    IF Len(insts) >= 1 THEN [decided |-> TRUE, instance_id |-> Null, project |-> Null]
    ELSE [decided |-> FALSE, instance_id |-> Null, project |-> Null]

\* A resolver that takes the first of several matches.
ResolveMatchesPicksFirst(insts) ==
    IF Len(insts) >= 1
    THEN [decided |-> TRUE, instance_id |-> insts[1].InstanceId, project |-> insts[1].Project]
    ELSE [decided |-> FALSE, instance_id |-> Null, project |-> Null]

\* _resolve_termination_target, after list_instances: the two early returns.
ResolveMatches(insts) ==
    IF Len(insts) = 1
    THEN [decided |-> TRUE, instance_id |-> insts[1].InstanceId, project |-> insts[1].Project]
    ELSE IF Len(insts) > 1
    THEN [decided |-> TRUE, instance_id |-> Null, project |-> Null]
    ELSE [decided |-> FALSE, instance_id |-> Null, project |-> Null]

\* A resolver that forgets the project of an instance found by id.
ResolveDirectDropsTag(out) ==
    IF out.err # Null \/ Len(out.Reservations) = 0 THEN [instance_id |-> Null, project |-> Null]
    ELSE LET instance == out.Reservations[1].Instances[1]
         IN [instance_id |-> instance.InstanceId, project |-> Null]

\* _resolve_termination_target, the try block: direct lookup by instance id.
ResolveDirect(out) ==
    IF out.err # Null THEN [instance_id |-> Null, project |-> Null]
    ELSE IF Len(out.Reservations) = 0 THEN [instance_id |-> Null, project |-> Null]
    ELSE IF Len(out.Reservations[1].Instances) = 0 THEN [instance_id |-> Null, project |-> Null]
    ELSE LET instance == out.Reservations[1].Instances[1]
         IN [instance_id |-> instance.InstanceId,
             project |-> OrNone(GetProjectTag(instance.Tags))]

LaunchFailure(e) == "Failed to launch devbox: " \o e
StatusFailure(e) == "Failed to retrieve status: " \o e
\* The original description let through without the prefix.
TerminateFailureRaw(e) == e
TerminateFailure(e) == "Failed to terminate instance: " \o e

\* The operation's own failure message.
FailureOf(o, e) ==
    IF o = "launch" THEN LaunchFailure(e)
    ELSE IF o = "status" THEN StatusFailure(e)
    ELSE TerminateFailure(e)

\* A dict with two collections under each other's key.
StatusResponseSwapped(i, v, s) == [instances |-> i, volumes |-> s, snapshots |-> v]
\* devbox_status: the returned dict.
StatusResponse(i, v, s) == [instances |-> i, volumes |-> v, snapshots |-> s]

\* A dict that reports failure whenever the resolver found nothing.
TerminateResponseForcesFailure(s, m, p, i) ==
    [success |-> IF i = Null THEN FALSE ELSE s, message |-> m, project |-> p, instance_id |-> i]
\* devbox_terminate: the returned dict.
TerminateResponse(s, m, p, i) ==
    [success |-> s, message |-> m, project |-> p, instance_id |-> i]

\* A call that hands over the resolved instance id when there is one.
TerminateArgResolved(identifier, resolved) == IF resolved # Null THEN resolved ELSE identifier
\* devbox_terminate: the argument handed to manager.terminate_instance.
TerminateArg(identifier, resolved) == identifier

Call(fn, a, e) == [fn |-> fn, arg |-> a, err |-> e]

\* except Exception as e: raise RuntimeError(f"... {e}") from e
Raise(e) ==
    /\ pc' = "done"
    /\ outcome' = "raised"
    /\ error' = FailureOf(op, e)
    /\ response' = Null

Return(r) ==
    /\ pc' = "done"
    /\ outcome' = "response"
    /\ response' = r
    /\ error' = Null

ClearLocals ==
    /\ instances' = <<>>
    /\ volumes' = <<>>
    /\ snapshots' = <<>>
    /\ lookup' = Null
    /\ instance_id' = Null
    /\ project' = Null
    /\ success' = FALSE
    /\ message' = Null
    /\ acted' = Null
    /\ outcome' = "none"
    /\ response' = Null
    /\ error' = Null
    /\ calls' = <<>>

Idle == pc \in {"idle", "done"}

Init ==
    /\ tags = [i \in InstIds |-> Gone]
    /\ op = "none"
    /\ arg = Null
    /\ pc = "idle"
    /\ calls = <<>>
    /\ instances = <<>>
    /\ volumes = <<>>
    /\ snapshots = <<>>
    /\ lookup = Null
    /\ instance_id = Null
    /\ project = Null
    /\ success = FALSE
    /\ message = Null
    /\ acted = Null
    /\ outcome = "none"
    /\ response = Null
    /\ error = Null

\* --------------------------------------------------------- environment
\* Another actor launches an instance, or retags one.
EnvLaunch ==
    \E i \in InstIds, t \in TagVals :
        /\ tags[i] # t
        /\ tags' = [tags EXCEPT ![i] = t]
        /\ UNCHANGED <<op, arg, pc, calls, locals, acted, result>>

\* Another actor terminates an instance.
EnvTerminate ==
    \E i \in InstIds :
        /\ tags[i] # Gone
        /\ tags' = [tags EXCEPT ![i] = Gone]
        /\ UNCHANGED <<op, arg, pc, calls, locals, acted, result>>

\* ------------------------------------------------------- devbox_launch
StartLaunch ==
    /\ Idle
    /\ \E p \in Projects : arg' = p
    /\ op' = "launch"
    /\ pc' = "l_launch"
    /\ ClearLocals
    /\ UNCHANGED tags

\* return launch_devbox(project=..., emit_output=False): the collaborator's record is
\* returned as it is, its failure is raised as the launch failure.
LaunchCall ==
    /\ pc = "l_launch"
    /\ \/ \E e \in Errors :
            /\ calls' = Append(calls, Call("launch_devbox", arg, e))
            /\ Raise(e)
            /\ UNCHANGED tags
       \/ \E i \in LaunchTargets(tags, arg) :
            /\ tags' = [tags EXCEPT ![i] = arg]
            /\ calls' = Append(calls, Call("launch_devbox", arg, Null))
            /\ Return([project |-> arg, instance_id |-> i, status |-> "running"])
    /\ UNCHANGED <<op, arg, locals, acted>>

\* ------------------------------------------------------- devbox_status
StartStatus ==
    /\ Idle
    /\ \E p \in Projects \cup {Null} : arg' = p
    /\ op' = "status"
    /\ pc' = "s_manager"
    /\ ClearLocals
    /\ UNCHANGED tags

\* manager = DevBoxManager()
StatusManager ==
    /\ pc = "s_manager"
    /\ \/ \E e \in Errors :
            /\ calls' = Append(calls, Call("DevBoxManager", Null, e))
            /\ Raise(e)
       \/ /\ calls' = Append(calls, Call("DevBoxManager", Null, Null))
          /\ pc' = "s_instances"
          /\ UNCHANGED result
    /\ UNCHANGED <<tags, op, arg, locals, acted>>

\* instances = manager.list_instances(project=project, serialize=True)
StatusInstances ==
    /\ pc = "s_instances"
    /\ \/ \E e \in Errors :
            /\ calls' = Append(calls, Call("list_instances", arg, e))
            /\ Raise(e)
            /\ UNCHANGED instances
       \/ /\ calls' = Append(calls, Call("list_instances", arg, Null))
          /\ instances' = ListInstances(tags, arg)
          /\ pc' = "s_volumes"
          /\ UNCHANGED result
    /\ UNCHANGED <<tags, op, arg, volumes, snapshots, lookup, instance_id, project,
                   success, message, acted>>

\* volumes = manager.list_volumes(project=project)
StatusVolumes ==
    /\ pc = "s_volumes"
    /\ \/ \E e \in Errors :
            /\ calls' = Append(calls, Call("list_volumes", arg, e))
            /\ Raise(e)
            /\ UNCHANGED volumes
       \/ \E v \in VolumeLists :
            /\ calls' = Append(calls, Call("list_volumes", arg, Null))
            /\ volumes' = v
            /\ pc' = "s_snapshots"
            /\ UNCHANGED result
    /\ UNCHANGED <<tags, op, arg, instances, snapshots, lookup, instance_id, project,
                   success, message, acted>>

\* devbox_status with a handler that hands back what it has when list_snapshots fails.
StatusSnapshotsReturnsPartial ==
    /\ pc = "s_snapshots"
    /\ \/ \E e \in Errors :
            /\ calls' = Append(calls, Call("list_snapshots", arg, e))
            /\ Return(StatusResponse(instances, volumes, <<>>))
            /\ UNCHANGED snapshots
       \/ \E s \in SnapshotLists :
            /\ calls' = Append(calls, Call("list_snapshots", arg, Null))
            /\ snapshots' = s
            /\ Return(StatusResponse(instances, volumes, s))
    /\ UNCHANGED <<tags, op, arg, instances, volumes, lookup, instance_id, project,
                   success, message, acted>>

\* snapshots = manager.list_snapshots(project=project, serialize=True); return {...}
StatusSnapshots ==
    /\ pc = "s_snapshots"
    /\ \/ \E e \in Errors :
            /\ calls' = Append(calls, Call("list_snapshots", arg, e))
            /\ Raise(e)
            /\ UNCHANGED snapshots
       \/ \E s \in SnapshotLists :
            /\ calls' = Append(calls, Call("list_snapshots", arg, Null))
            /\ snapshots' = s
            /\ Return(StatusResponse(instances, volumes, s))
    /\ UNCHANGED <<tags, op, arg, instances, volumes, lookup, instance_id, project,
                   success, message, acted>>

\* ---------------------------------------------------- devbox_terminate
StartTerminate ==
    /\ Idle
    /\ \E id \in Identifiers : arg' = id
    /\ op' = "terminate"
    /\ pc' = "t_manager"
    /\ ClearLocals
    /\ UNCHANGED tags

\* manager = DevBoxManager()
TerminateManager ==
    /\ pc = "t_manager"
    /\ \/ \E e \in Errors :
            /\ calls' = Append(calls, Call("DevBoxManager", Null, e))
            /\ Raise(e)
       \/ /\ calls' = Append(calls, Call("DevBoxManager", Null, Null))
          /\ pc' = "t_list"
          /\ UNCHANGED result
    /\ UNCHANGED <<tags, op, arg, locals, acted>>

\* A resolver whose try block also covers list_instances: the query's failure is
\* swallowed and the request goes on unresolved.
ResolveListSwallows ==
    /\ pc = "t_list"
    /\ \/ \E e \in Errors :
            /\ calls' = Append(calls, Call("list_instances", arg, e))
            /\ pc' = "t_terminate"
            /\ UNCHANGED <<instances, instance_id, project, result>>
       \/ LET insts == ListInstances(tags, arg)
              r == ResolveMatches(insts)
          IN /\ calls' = Append(calls, Call("list_instances", arg, Null))
             /\ instances' = insts
             /\ instance_id' = r.instance_id
             /\ project' = r.project
             /\ pc' = IF r.decided THEN "t_terminate" ELSE "t_describe"
             /\ UNCHANGED result
    /\ UNCHANGED <<tags, op, arg, volumes, snapshots, lookup, success, message, acted>>

\* _resolve_termination_target: instances = manager.list_instances(project=identifier)
\* and the two returns that follow it. The call is outside the resolver's try block.
ResolveList ==
    /\ pc = "t_list"
    /\ \/ \E e \in Errors :
            /\ calls' = Append(calls, Call("list_instances", arg, e))
            /\ Raise(e)
            /\ UNCHANGED <<instances, instance_id, project>>
       \/ LET insts == ListInstances(tags, arg)
              r == ResolveMatches(insts)
          IN /\ calls' = Append(calls, Call("list_instances", arg, Null))
             /\ instances' = insts
             /\ instance_id' = r.instance_id
             /\ project' = r.project
             /\ pc' = IF r.decided THEN "t_terminate" ELSE "t_describe"
             /\ UNCHANGED result
    /\ UNCHANGED <<tags, op, arg, volumes, snapshots, lookup, success, message, acted>>

\* _resolve_termination_target: the try block around describe_instances.
ResolveDescribe ==
    /\ pc = "t_describe"
    /\ \E out \in DescribeOutcomes(tags, arg) :
         LET r == ResolveDirect(out)
         IN /\ calls' = Append(calls, Call("describe_instances", arg, out.err))
            /\ lookup' = out
            /\ instance_id' = r.instance_id
            /\ project' = r.project
            /\ pc' = "t_terminate"
    /\ UNCHANGED <<tags, op, arg, instances, volumes, snapshots, success, message,
                   acted, result>>

\* success, message = manager.terminate_instance(identifier); return {...}
TerminateCall ==
    /\ pc = "t_terminate"
    /\ LET a == TerminateArg(arg, instance_id)
           target == TerminateTarget(tags, a)
       IN \/ \E e \in Errors :
               /\ calls' = Append(calls, Call("terminate_instance", a, e))
               /\ Raise(e)
               /\ UNCHANGED <<tags, success, message, acted>>
          \/ /\ target # Null
             /\ calls' = Append(calls, Call("terminate_instance", a, Null))
             /\ tags' = [tags EXCEPT ![target] = Gone]
             /\ acted' = target
             /\ success' = TRUE
             /\ message' = "Terminating"
             /\ Return(TerminateResponse(TRUE, "Terminating", project, instance_id))
          \/ /\ target = Null
             /\ \E m \in {"NotFound", "Ambiguous"} :
                  /\ calls' = Append(calls, Call("terminate_instance", a, Null))
                  /\ success' = FALSE
                  /\ message' = m
                  /\ Return(TerminateResponse(FALSE, m, project, instance_id))
             /\ UNCHANGED <<tags, acted>>
    /\ UNCHANGED <<op, arg, instances, volumes, snapshots, lookup, instance_id, project>>

Next ==
    \/ EnvLaunch
    \/ EnvTerminate
    \/ StartLaunch
    \/ LaunchCall
    \/ StartStatus
    \/ StatusManager
    \/ StatusInstances
    \/ StatusVolumes
    \/ StatusSnapshots
    \/ StartTerminate
    \/ TerminateManager
    \/ ResolveList
    \/ ResolveDescribe
    \/ TerminateCall

Spec == Init /\ [][Next]_vars

\* ------------------------------------------------------------ properties
CallsTo(fn) == {k \in 1..Len(calls) : calls[k].fn = fn}
FailedCalls == {k \in 1..Len(calls) : calls[k].err # Null}
ListOk == \E k \in CallsTo("list_instances") : calls[k].err = Null
Described == CallsTo("describe_instances") # {}
\* _resolve_termination_target has returned its pair to devbox_terminate.
ResolverReturned == op = "terminate" /\ ListOk /\ (Len(instances) >= 1 \/ Described)
LookupFound ==
    /\ lookup.err = Null
    /\ Len(lookup.Reservations) > 0
    /\ Len(lookup.Reservations[1].Instances) > 0
Prefix ==
    IF op = "launch" THEN "Failed to launch devbox: "
    ELSE IF op = "status" THEN "Failed to retrieve status: "
    ELSE "Failed to terminate instance: "
StatusQueries == {"list_instances", "list_volumes", "list_snapshots"}

\* C1: every terminate_instance call of a devbox_terminate request carries the raw
\* identifier the caller gave, never the resolved instance id, and once the resolver
\* has returned any pair, (null, null) included, the finished request has made
\* that call exactly once.
C1_TerminateGetsRawIdentifier ==
    op = "terminate" =>
        /\ \A k \in CallsTo("terminate_instance") : calls[k].arg = arg
        /\ (pc = "done" /\ ResolverReturned
                => Cardinality(CallsTo("terminate_instance")) = 1)

C1_Witness ==
    /\ op = "terminate" /\ pc = "done" /\ outcome = "response"
    /\ ResolverReturned
    /\ instance_id = Null /\ project = Null
    /\ \E k \in CallsTo("terminate_instance") : calls[k].arg = arg

\* C2: when the project-tag query returned exactly one record, the resolver returns
\* that record's instance id and project and makes no describe_instances call.
C2_SingleMatchResolves ==
    ResolverReturned /\ Len(instances) = 1 =>
        /\ instance_id = instances[1].InstanceId
        /\ project = instances[1].Project
        /\ ~Described

C2_Witness ==
    /\ ResolverReturned /\ Len(instances) = 1
    /\ instance_id = instances[1].InstanceId
    /\ instance_id # arg
    /\ project = arg

\* C3: when the project-tag query returned two or more records, the resolver returns
\* (null, null), none of the matching ids, and makes no describe_instances call.
C3_AmbiguousResolvesToNull ==
    ResolverReturned /\ Len(instances) >= 2 =>
        /\ instance_id = Null
        /\ project = Null
        /\ ~Described

C3_Witness ==
    /\ ResolverReturned /\ Len(instances) >= 2
    /\ instances[1].InstanceId # instances[2].InstanceId
    /\ instance_id = Null

\* The resolver's zero-match path has run: the query returned no record and the
\* direct lookup is behind it.
ZeroMatchDone == op = "terminate" /\ ListOk /\ Len(instances) = 0 /\ pc # "t_describe"

\* C4 as stated: with zero records the resolver looks the identifier up as an instance
\* id; a lookup that succeeds gives (instance id, project tag, null when the tag is
\* absent), a lookup that fails gives (null, null), and the resolver does not raise.
C4_AsStated ==
    ZeroMatchDone =>
        /\ Described
        /\ (pc = "t_terminate" => outcome = "none")
        /\ (outcome = "raised" => calls[Len(calls)].fn = "terminate_instance")
        /\ IF LookupFound
           THEN LET instance == lookup.Reservations[1].Instances[1]
                IN /\ instance_id = instance.InstanceId
                   /\ project = IF instance.Tags = NoTag THEN Null ELSE instance.Tags
           ELSE instance_id = Null /\ project = Null

\* C4 amended: as C4, but the project is null when the tag is absent or empty.
C4_DirectLookup ==
    ZeroMatchDone =>
        /\ Described
        /\ (pc = "t_terminate" => outcome = "none")
        /\ (outcome = "raised" => calls[Len(calls)].fn = "terminate_instance")
        /\ IF LookupFound
           THEN LET instance == lookup.Reservations[1].Instances[1]
                IN /\ instance_id = instance.InstanceId
                   /\ instance_id = arg
                   /\ project = IF instance.Tags \in {NoTag, ""} THEN Null
                                ELSE instance.Tags
           ELSE instance_id = Null /\ project = Null

C4_Witness ==
    /\ ZeroMatchDone /\ LookupFound
    /\ lookup.Reservations[1].Instances[1].Tags = "web"
    /\ instance_id = arg /\ project = "web"

\* C5: the instance_id of a terminate response is null or the id of the instance
\* that terminate_instance terminated, whatever other actors did to the provider's
\* instances between the resolver's lookup and the terminate call.
C5_EchoesActedInstance ==
    op = "terminate" /\ outcome = "response" =>
        response.instance_id \in {Null, acted}

\* C6: a devbox_status that returns has called list_instances, list_volumes and
\* list_snapshots once each with the request's project filter, and returns what they
\* gave, each under its own key and in the order given.
C6_StatusPassesThrough ==
    op = "status" /\ outcome = "response" =>
        /\ \A fn \in StatusQueries :
              /\ Cardinality(CallsTo(fn)) = 1
              /\ \A k \in CallsTo(fn) : calls[k].arg = arg /\ calls[k].err = Null
        /\ response.instances = instances
        /\ response.volumes = volumes
        /\ response.snapshots = snapshots

C6_Witness ==
    /\ op = "status" /\ outcome = "response" /\ arg = "web"
    /\ Len(response.instances) = 2
    /\ response.volumes = <<"vol-2", "vol-1">>
    /\ response.snapshots = <<"snap-1", "snap-2">>

\* C7: when one of the three queries of devbox_status fails, the request raises the
\* status-retrieval failure carrying that failure's description and returns nothing,
\* whatever was fetched before.
C7_StatusAllOrNothing ==
    op = "status" =>
        \A k \in FailedCalls :
            calls[k].fn \in StatusQueries =>
                /\ pc = "done"
                /\ outcome = "raised"
                /\ response = Null
                /\ error = "Failed to retrieve status: " \o calls[k].err

C7_Witness ==
    /\ op = "status" /\ outcome = "raised"
    /\ Len(instances) > 0 /\ Len(volumes) > 0
    /\ \E k \in CallsTo("list_snapshots") : calls[k].err = "Boom"

\* What a finished request must look like (first half of C8).
OneOutcome ==
    /\ outcome \in {"response", "raised"}
    /\ outcome = "raised" =>
          /\ response = Null
          /\ calls[Len(calls)].err # Null
          /\ error = Prefix \o calls[Len(calls)].err
    /\ outcome = "response" =>
          /\ error = Null
          /\ DOMAIN response =
                IF op = "launch" THEN {"project", "instance_id", "status"}
                ELSE IF op = "status" THEN {"instances", "volumes", "snapshots"}
                ELSE {"success", "message", "project", "instance_id"}

\* C8 as stated: a finished request has either its response or one failure made of the
\* operation's prefix and the original description, and every failure a collaborator
\* raised during the request gives the failure.
C8_AsStated ==
    /\ pc # "done" => outcome = "none"
    /\ pc = "done" => OneOutcome /\ (FailedCalls # {} => outcome = "raised")

\* C8 amended: as C8, except that a failure of the resolver's describe_instances
\* lookup is swallowed and the request goes on.
C8_NormalizedFailure ==
    /\ pc # "done" => outcome = "none"
    /\ pc = "done" =>
          /\ OneOutcome
          /\ \A k \in FailedCalls :
                calls[k].fn # "describe_instances" => outcome = "raised"

C8_Witness ==
    /\ op = "terminate" /\ pc = "done" /\ outcome = "raised"
    /\ \E k \in CallsTo("describe_instances") : calls[k].err = "NotFound"
    /\ error = "Failed to terminate instance: Denied"

\* C9: a terminate response carries the (success, message) of terminate_instance and
\* the resolver's (instance_id, project) as they are; success = false is returned, not
\* raised, and a (null, null) resolution leaves success and message alone.
C9_TerminateResponseComposed ==
    /\ op = "terminate" /\ outcome = "response" =>
          /\ response.success = success
          /\ response.message = message
          /\ response.instance_id = instance_id
          /\ response.project = project
    /\ op = "terminate" /\ pc = "done" =>
          \A k \in CallsTo("terminate_instance") :
              calls[k].err = Null => outcome = "response"

C9_Witness ==
    /\ op = "terminate" /\ outcome = "response"
    /\ response.success = TRUE /\ response.message = "Terminating"
    /\ response.instance_id = Null /\ response.project = Null

NoCallTwice == \A k, l \in 1..Len(calls) : calls[k].fn = calls[l].fn => k = l

\* C10 as stated: no call is issued twice in a request, and a call that raises is the
\* request's last call and ends the request in a failure.
C10_AsStated ==
    /\ NoCallTwice
    /\ \A k \in FailedCalls :
          k = Len(calls) /\ pc = "done" /\ outcome = "raised"

\* C10 amended: as C10, except that after a failed describe_instances lookup of the
\* resolver the request goes on to terminate_instance and may return a response.
C10_NoRetry ==
    /\ NoCallTwice
    /\ \A k \in FailedCalls :
          calls[k].fn # "describe_instances" =>
              k = Len(calls) /\ pc = "done" /\ outcome = "raised"

C10_Witness ==
    /\ op = "terminate" /\ pc = "done" /\ outcome = "response"
    /\ Len(calls) = 4
    /\ calls[3].fn = "describe_instances" /\ calls[3].err = "Boom"
    /\ calls[4].fn = "terminate_instance"

====
